---------------------------- MODULE Spec2Model ----------------------------
(***************************************************************************)
(* Model of calculate_tax_like_tally/overrides/sales_invoice.py:           *)
(* TallyTaxSalesInvoice.validate and .apply_tally_tax_calculation.         *)
(*                                                                         *)
(* Numbers are what they are in the Python source:                         *)
(*   - a float is an IEEE 754 binary64 number, sign * m * 2^e, and the     *)
(*     operations on floats round to nearest, ties to even, as the         *)
(*     hardware does (1.035 is 4661225614328463 * 2^-52, a little below    *)
(*     the decimal 1.035);                                                 *)
(*   - an int is an integer (floor(), int() and round_half_up return one). *)
(* A field that may be absent/None is None (the empty tuple) or Some(v).   *)
(* Text that is searched (row labels) is a tuple of one-character strings. *)
(***************************************************************************)
EXTENDS Integers, Sequences, FiniteSets, TLC

VARIABLES items, taxes, doc, hist

vars == <<items, taxes, doc, hist>>

\* ------------------------------------------------------------------ bounds
MaxItems == 2
MaxTaxes == 3

\* ------------------------------------------------------- optional values
None == <<>>
Some(v) == <<v>>

\* ------------------------------------------------ natural numbers, any size
\* A natural number is the sequence of its digits in base 2^14, the least
\* significant first, without leading zero digits (0 is the empty sequence).
Base == 16384

TwoTo == <<1, 2, 4, 8, 16, 32, 64, 128, 256, 512, 1024, 2048, 4096, 8192,
           16384>>

\* 2^k, k in 0..14
Pow2(k) == TwoTo[k + 1]

Max(a, b) == IF a >= b THEN a ELSE b

Limb(a, i) == IF i >= 1 /\ i <= Len(a) THEN a[i] ELSE 0

RECURSIVE NTrim(_)
NTrim(a) ==
    IF Len(a) > 0 /\ a[Len(a)] = 0 THEN NTrim(SubSeq(a, 1, Len(a) - 1))
    ELSE a

\* the digits of a sequence of columns c (each below 2^30 in magnitude)
RECURSIVE NCarry(_, _, _)
NCarry(c, i, carry) ==
    IF i > Len(c)
    THEN IF carry = 0 THEN <<>>
         ELSE <<carry % Base>> \o NCarry(c, i, carry \div Base)
    ELSE <<(c[i] + carry) % Base>>
            \o NCarry(c, i + 1, (c[i] + carry) \div Base)

\* a sequence given by a rule, written out
Digits(f) == SubSeq(f, 1, Len(f))

NNorm(c) == NTrim(NCarry(Digits(c), 1, 0))

NAdd(a, b) == NNorm([i \in 1..Max(Len(a), Len(b)) |-> Limb(a, i) + Limb(b, i)])

\* a - b, for a >= b
NSub(a, b) == NNorm([i \in 1..Len(a) |-> a[i] - Limb(b, i)])

RECURSIVE NLessFrom(_, _, _)
NLessFrom(a, b, i) ==
    IF i = 0 THEN FALSE
    ELSE IF a[i] # b[i] THEN a[i] < b[i]
    ELSE NLessFrom(a, b, i - 1)

\* a < b
NLess(a, b) ==
    IF Len(a) # Len(b) THEN Len(a) < Len(b) ELSE NLessFrom(a, b, Len(a))

\* a * b, for a and b of four digits
NMul(a, b) ==
    NNorm(<<a[1] * b[1],
            a[1] * b[2] + a[2] * b[1],
            a[1] * b[3] + a[2] * b[2] + a[3] * b[1],
            a[1] * b[4] + a[2] * b[3] + a[3] * b[2] + a[4] * b[1],
            a[2] * b[4] + a[3] * b[3] + a[4] * b[2],
            a[3] * b[4] + a[4] * b[3],
            a[4] * b[4]>>)

\* a * 2^n
NShl(a, n) ==
    LET q == n \div 14
        r == n % 14
    IN  NTrim(Digits([i \in 1..(Len(a) + q + 1) |->
                 ((Limb(a, i - q) * Pow2(r)) % Base)
                    + (Limb(a, i - q - 1) \div Pow2(14 - r))]))

\* a \div 2^n
NShr(a, n) ==
    LET q == n \div 14
        r == n % 14
    IN  NTrim(Digits([i \in 1..Max(Len(a) - q, 0) |->
                 (a[i + q] \div Pow2(r))
                    + (Limb(a, i + q + 1) % Pow2(r)) * Pow2(14 - r)]))

\* a % 2^n # 0
NLowBits(a, n) ==
    \/ \E i \in 1..Len(a) : i <= n \div 14 /\ a[i] # 0
    \/ Limb(a, n \div 14 + 1) % Pow2(n % 14) # 0

\* bit n of a (bit 0 is the least significant)
NBit(a, n) == (Limb(a, n \div 14 + 1) \div Pow2(n % 14)) % 2

\* the number of bits of a, a # 0
DigitBits(d) ==
    IF d < 128
    THEN IF d < 8 THEN (IF d < 2 THEN 1 ELSE IF d < 4 THEN 2 ELSE 3)
         ELSE IF d < 32 THEN (IF d < 16 THEN 4 ELSE 5)
         ELSE IF d < 64 THEN 6 ELSE 7
    ELSE IF d < 1024 THEN (IF d < 256 THEN 8 ELSE IF d < 512 THEN 9 ELSE 10)
         ELSE IF d < 4096 THEN (IF d < 2048 THEN 11 ELSE 12)
         ELSE IF d < 8192 THEN 13 ELSE 14

NBitLen(a) == 14 * (Len(a) - 1) + DigitBits(a[Len(a)])

\* quotient and remainder of a by k, 0 < k < 2^16
RECURSIVE NDivFrom(_, _, _, _)
NDivFrom(a, k, i, r) ==
    IF i = 0 THEN [q |-> <<>>, r |-> r]
    ELSE LET rest == NDivFrom(a, k, i - 1, (r * Base + a[i]) % k)
         IN  [q |-> Append(rest.q, (r * Base + a[i]) \div k), r |-> rest.r]

NDiv(a, k) ==
    LET d == NDivFrom(a, k, Len(a), 0) IN [q |-> NTrim(d.q), r |-> d.r]

\* a natural number below 2^31 as a number of any size, and back
NFromInt(n) == NTrim(<<n % Base, (n \div Base) % Base, n \div (Base * Base)>>)

NToInt(a) == Limb(a, 1) + Base * Limb(a, 2) + Base * Base * Limb(a, 3)

\* ------------------------------------------------------------------ floats
\* A Python float (IEEE 754 binary64, round to nearest, ties to even) is
\* sign * m * 2^e with sign 1 or -1 and m = 0 or 2^52 <= m < 2^53.
\* Infinities, NaN and subnormal numbers do not occur.
Float(sign, m, e) == [sign |-> sign, m |-> m, e |-> e]

IsZero(x) == x.m = <<>>

\* the float nearest to sign * n * 2^e (n # 0), or to a number just above it
\* in magnitude when sticky
Rounded(sign, n, e, sticky) ==
    LET len == NBitLen(n)
        sh == len - 53
    IN  IF sh <= 0 THEN Float(sign, NShl(n, -sh), e + sh)
        ELSE LET q == NShr(n, sh)
                 up == NBit(n, sh - 1) = 1
                         /\ (sticky \/ NLowBits(n, sh - 1) \/ NBit(q, 0) = 1)
                 m == IF up THEN NAdd(q, <<1>>) ELSE q
             IN  IF NBitLen(m) = 54 THEN Float(sign, NShr(m, 1), e + sh + 1)
                 ELSE Float(sign, m, e + sh)

\* float(n) for an int n, |n| < 2^31
float(n) ==
    IF n = 0 THEN Float(1, <<>>, 0)
    ELSE IF n > 0 THEN Rounded(1, NFromInt(n), 0, FALSE)
    ELSE Rounded(-1, NFromInt(-n), 0, FALSE)

\* x * y
float_mul(x, y) ==
    IF IsZero(x) \/ IsZero(y) THEN Float(x.sign * y.sign, <<>>, 0)
    ELSE Rounded(x.sign * y.sign, NMul(x.m, y.m), x.e + y.e, FALSE)

\* a * k, for a digit k
NMulDigit(a, k) == NNorm([i \in 1..Len(a) |-> a[i] * k])

\* a * 2^14
NShlDigit(a) == IF a = <<>> THEN a ELSE <<0>> \o a

\* the digit r \div den, for r < den * 2^14 and den of four digits with
\* den[4] >= 2^13: the estimate from the leading digits is at most 2 too large
RECURSIVE DigitFrom(_, _, _)
DigitFrom(r, den, qhat) ==
    IF NLess(r, NMulDigit(den, qhat)) THEN DigitFrom(r, den, qhat - 1)
    ELSE qhat

Digit(r, den) ==
    LET est == (Limb(r, 5) * Base + Limb(r, 4)) \div den[4]
    IN  DigitFrom(r, den, IF est > Base - 1 THEN Base - 1 ELSE est)

\* the digits of r * 2^(14 * n) \div den, the least significant first, and
\* whether a remainder is left
RECURSIVE LongDiv(_, _, _)
LongDiv(r, den, n) ==
    IF n = 0 THEN [q |-> <<>>, r |-> r # <<>>]
    ELSE LET d == Digit(NShlDigit(r), den)
             rest == LongDiv(NSub(NShlDigit(r), NMulDigit(den, d)), den, n - 1)
         IN  [q |-> Append(rest.q, d), r |-> rest.r]

\* x / y, y # 0.  A divisor whose mantissa is one digit (100.0 is
\* 1600 * 2^-36 * 2^42) divides digit by digit; any other by long division.
float_div(x, y) ==
    IF IsZero(x) THEN Float(x.sign * y.sign, <<>>, 0)
    ELSE IF y.m[1] = 0 /\ y.m[2] = 0 /\ y.m[3] = 0
    THEN LET t == NDiv(<<0, 0>> \o x.m, y.m[4])
         IN  Rounded(x.sign * y.sign, t.q, x.e - 28 - y.e - 42, t.r # 0)
    ELSE LET num == NShl(x.m, 3)
             den == NShl(y.m, 3)
             d == IF NLess(num, den) THEN 0 ELSE 1
             t == LongDiv(IF d = 1 THEN NSub(num, den) ELSE num, den, 5)
         IN  Rounded(x.sign * y.sign, NTrim(Append(t.q, d)),
                     x.e - y.e - 70, t.r)

float_neg(x) == Float(-x.sign, x.m, x.e)

\* x + y
float_add(x, y) ==
    IF IsZero(x) /\ IsZero(y)
    THEN Float(IF x.sign = -1 /\ y.sign = -1 THEN -1 ELSE 1, <<>>, 0)
    ELSE IF IsZero(x) THEN y
    ELSE IF IsZero(y) THEN x
    ELSE LET hi == IF x.e >= y.e THEN x ELSE y
             lo == IF x.e >= y.e THEN y ELSE x
             d == hi.e - lo.e
         IN  IF d > 56
             THEN IF hi.sign = lo.sign
                  THEN Rounded(hi.sign, NShl(hi.m, 3), hi.e - 3, TRUE)
                  ELSE Rounded(hi.sign, NSub(NShl(hi.m, 3), <<1>>),
                               hi.e - 3, TRUE)
             ELSE LET a == NShl(hi.m, d)
                  IN  IF hi.sign = lo.sign
                      THEN Rounded(hi.sign, NAdd(a, lo.m), lo.e, FALSE)
                      ELSE IF a = lo.m THEN Float(1, <<>>, 0)
                      ELSE IF NLess(a, lo.m)
                      THEN Rounded(lo.sign, NSub(lo.m, a), lo.e, FALSE)
                      ELSE Rounded(hi.sign, NSub(a, lo.m), lo.e, FALSE)

\* x - y
float_sub(x, y) == float_add(x, float_neg(y))

\* x < y
float_lt(x, y) ==
    IF IsZero(x) THEN ~IsZero(y) /\ y.sign = 1
    ELSE IF IsZero(y) THEN x.sign = -1
    ELSE IF x.sign # y.sign THEN x.sign = -1
    ELSE IF x.sign = 1
    THEN x.e < y.e \/ (x.e = y.e /\ NLess(x.m, y.m))
    ELSE y.e < x.e \/ (x.e = y.e /\ NLess(y.m, x.m))

\* x >= y, x > y
float_ge(x, y) == ~float_lt(x, y)
float_gt(x, y) == float_lt(y, x)

\* int(x): x cut toward zero, |x| < 2^31
int(x) ==
    IF IsZero(x) \/ x.e <= -53 THEN 0
    ELSE x.sign * NToInt(IF x.e >= 0 THEN NShl(x.m, x.e) ELSE NShr(x.m, -x.e))

\* frappe.utils.floor: math.floor(x) as an int, |x| < 2^31
floor(x) ==
    IF IsZero(x) THEN 0
    ELSE IF x.sign = 1 THEN int(x)
    ELSE IF x.e >= 0 THEN int(x)
    ELSE IF x.e <= -53 \/ NLowBits(x.m, -x.e) THEN int(x) - 1
    ELSE int(x)

\* the literals 0.0, 0.5 and 100
Zero == Float(1, <<>>, 0)
Half == Float(1, <<0, 0, 0, 1024>>, -53)
Hundred == float(100)

\* the float a decimal literal with two places denotes: c / 100 rounded
Dec2(c) == float_div(float(c), Hundred)

\* flt(x or 0): None, 0.0 and -0.0 are falsy and become 0.0
flt_or0(x) == IF x = None THEN Zero ELSE IF IsZero(x[1]) THEN Zero ELSE x[1]

\* ------------------------------------------------------ rounding primitives
RECURSIVE IntPow10(_)
IntPow10(k) == IF k = 0 THEN 1 ELSE 10 * IntPow10(k - 1)

\* 10 ** decimals: an int for decimals >= 0 (a float once it is multiplied
\* with one), the float 1 / 10^-decimals for decimals < 0; |decimals| <= 9
Pow10(decimals) ==
    IF decimals >= 0 THEN float(IntPow10(decimals))
    ELSE float_div(float(1), float(IntPow10(-decimals)))

\* round_half(n, decimals): float(int(n * multiplier + 0.5)) / multiplier
round_half(n, decimals) ==
    LET multiplier == Pow10(decimals)
    IN  float_div(float(int(float_add(float_mul(n, multiplier), Half))),
                  multiplier)

\* round_half_up(n): an int
round_half_up(n) ==
    LET decimal_part == float_sub(n, float(int(n)))
    IN  IF float_ge(decimal_part, Half) THEN int(n) + 1 ELSE int(n)

\* ----------------------------------------------------------------- text
UpperChars == <<"A","B","C","D","E","F","G","H","I","J","K","L","M",
                "N","O","P","Q","R","S","T","U","V","W","X","Y","Z">>
LowerChars == <<"a","b","c","d","e","f","g","h","i","j","k","l","m",
                "n","o","p","q","r","s","t","u","v","w","x","y","z">>

\* the lower-case letter of each upper-case letter
LowerMap ==
    [c \in {UpperChars[i] : i \in 1..Len(UpperChars)} |->
        LowerChars[CHOOSE i \in 1..Len(UpperChars) : UpperChars[i] = c]]

lower_char(c) == IF c \in DOMAIN LowerMap THEN LowerMap[c] ELSE c

\* str.lower()
lower(s) == [i \in 1..Len(s) |-> lower_char(s[i])]

\* sub in s
contains(sub, s) ==
    \E str \in {s} :
        \E k \in 0..(Len(str) - Len(sub)) :
            \A j \in 1..Len(sub) : str[k + j] = sub[j]

\* ------------------------------------------------------------------ dict
\* A Python dict: keys in insertion order, and the value of each key.
EmptyDict == [order |-> <<>>, val |-> <<>>]

HasKey(d, k) == \E i \in 1..Len(d.order) : d.order[i] = k

KeyIndex(d, k) == CHOOSE i \in 1..Len(d.order) : d.order[i] = k

\* d[k] = v: a new key is appended, an existing key keeps its place
DictSet(d, k, v) ==
    IF HasKey(d, k)
    THEN [d EXCEPT !.val[KeyIndex(d, k)] = v]
    ELSE [order |-> Append(d.order, k), val |-> Append(d.val, v)]

\* json.dumps(d): the members of the JSON object in the order they are
\* written, each member as <<key, rate, amount>>
json_dumps(d) ==
    [i \in 1..Len(d.order) |-> <<d.order[i], d.val[i][1], d.val[i][2]>>]

\* ---------------------------------------------------------- input domains
CGST_TAG == <<"c","g","s","t">>
IGST_TAG == <<"I","G","S","T">>
CGST_HEAD == <<"I","G","S","T"," ","A","/","c">>
SGST_HEAD == <<"O","u","t","p","u","t"," ","S","G","S","T">>
UTGST_HEAD == <<"U","T","G","S","T","-","i","g","s","t">>
IGST_HEAD == <<"O","u","t","p","u","t"," ","I","G","S","T">>
FREIGHT_HEAD == <<"F","r","e","i","g","h","t">>

\* A tax row as the caller appends it, before any validation pass.
NewTaxRow(tag, head) ==
    [gst_tax_type |-> tag, account_head |-> head,
     tax_amount |-> Zero, base_tax_amount |-> Zero,
     tax_amount_after_discount_amount |-> Zero,
     base_tax_amount_after_discount_amount |-> Zero,
     item_wise_tax_detail |-> <<>>,
     total |-> Zero, base_total |-> Zero]

\* Rows the caller may supply: a type tag "cgst" that wins over a misleading
\* account head; a row with no tag that falls back on an upper-case account
\* head; a row with no tag whose head holds both "utgst" and "igst"; an
\* upper-case tag "IGST"; and a row that is no GST row at all.
TaxRowPool ==
    { NewTaxRow(Some(CGST_TAG), CGST_HEAD),
      NewTaxRow(None, SGST_HEAD),
      NewTaxRow(None, UTGST_HEAD),
      NewTaxRow(Some(IGST_TAG), IGST_HEAD),
      NewTaxRow(Some(<<>>), FREIGHT_HEAD) }

NewItem(code, amount, c, s, i) ==
    [item_code |-> code, amount |-> amount,
     cgst_rate |-> c, sgst_rate |-> s, igst_rate |-> i,
     cgst_amount |-> None, sgst_amount |-> None, igst_amount |-> None]

\* Line items: 100.05 at 9% + 9% (9.0045 each); a line with no amount under
\* the same item code; 11.50 at 9% central (1.035, a half cent that has no
\* exact float) and 3% state (0.345); a credit line, -1002.50 at 5%
\* integrated (-50.125).
ItemA == NewItem("A", Some(Dec2(10005)), Some(float(9)), Some(float(9)), None)
ItemA0 == NewItem("A", None, Some(float(9)), Some(float(9)), Some(Zero))
ItemT == NewItem("T", Some(Dec2(1150)), Some(float(9)), Some(float(3)), None)
ItemN == NewItem("N", Some(Dec2(-100250)), None, None, Some(float(5)))

ItemPool == { ItemA, ItemA0, ItemT, ItemN }

SeqsUpTo(S, n) == UNION { [1..k -> S] : k \in 0..n }

\* The line items of an invoice: every list of at most two items of
\* ItemPool, and the longer lists, up to MaxItems items, of ItemA and ItemN.
ItemLists ==
    SeqsUpTo(ItemPool, 2)
        \cup {l \in SeqsUpTo({ItemA, ItemN}, MaxItems) : Len(l) > 2}

\* The tax rows of an invoice: every list of at most two rows of TaxRowPool
\* (the row counts the running totals single out), and the longer lists, up
\* to MaxTaxes rows, of a central row and a freight row.
LongRowPool ==
    { NewTaxRow(Some(CGST_TAG), CGST_HEAD),
      NewTaxRow(Some(<<>>), FREIGHT_HEAD) }

TaxLists ==
    SeqsUpTo(TaxRowPool, 2)
        \cup {t \in SeqsUpTo(LongRowPool, MaxTaxes) : Len(t) > 2}

NewDoc(is_return, docstatus, net_total, base_total) ==
    [is_return |-> is_return, docstatus |-> docstatus,
     net_total |-> net_total, base_total |-> base_total,
     total_taxes_and_charges |-> Zero, base_total_taxes_and_charges |-> Zero,
     grand_total |-> Zero, base_grand_total |-> Zero,
     rounding_adjustment |-> Zero, rounded_total |-> Zero,
     base_rounded_total |-> Zero, outstanding_amount |-> Zero]

\* net_total / base_total as the host left them: absent, or 1000.00 / 1024.62
DocTotalsPool ==
    { <<None, None>>, <<Some(Dec2(100000)), Some(Dec2(102462))>> }

\* ------------------------------------------- apply_tally_tax_calculation
\* Step 1, one pass of the loop body for one line item: the rounded amounts
\* are stored on the item, recorded in the breakup dictionaries when the rate
\* is positive, and added to the running totals.
ItemStepWith(acc, item, rate, amount) ==
    [items |-> Append(acc.items,
                 [item EXCEPT !.cgst_amount = Some(amount.cgst),
                              !.sgst_amount = Some(amount.sgst),
                              !.igst_amount = Some(amount.igst)]),
     cgst_item_wise |->
         IF float_gt(rate.cgst, Zero)
         THEN DictSet(acc.cgst_item_wise, item.item_code,
                      <<rate.cgst, amount.cgst>>)
         ELSE acc.cgst_item_wise,
     sgst_item_wise |->
         IF float_gt(rate.sgst, Zero)
         THEN DictSet(acc.sgst_item_wise, item.item_code,
                      <<rate.sgst, amount.sgst>>)
         ELSE acc.sgst_item_wise,
     igst_item_wise |->
         IF float_gt(rate.igst, Zero)
         THEN DictSet(acc.igst_item_wise, item.item_code,
                      <<rate.igst, amount.igst>>)
         ELSE acc.igst_item_wise,
     total_cgst |-> float_add(acc.total_cgst, amount.cgst),
     total_sgst |-> float_add(acc.total_sgst, amount.sgst),
     total_igst |-> float_add(acc.total_igst, amount.igst)]

\* round_half(amount * rate / 100, 2) for the three rates
TaxAmounts(amount, rate) ==
    [cgst |-> round_half(float_div(float_mul(amount, rate.cgst), Hundred), 2),
     sgst |-> round_half(float_div(float_mul(amount, rate.sgst), Hundred), 2),
     igst |-> round_half(float_div(float_mul(amount, rate.igst), Hundred), 2)]

\* the rates of an item
Rates(item) ==
    [cgst |-> flt_or0(item.cgst_rate), sgst |-> flt_or0(item.sgst_rate),
     igst |-> flt_or0(item.igst_rate)]

ItemStep(acc, item) ==
    ItemStepWith(acc, item, Rates(item),
                 TaxAmounts(flt_or0(item.amount), Rates(item)))

ItemLoopStart ==
    [items |-> <<>>,
     cgst_item_wise |-> EmptyDict, sgst_item_wise |-> EmptyDict,
     igst_item_wise |-> EmptyDict,
     total_cgst |-> Zero, total_sgst |-> Zero, total_igst |-> Zero]

RECURSIVE ItemLoopFrom(_, _, _)
ItemLoopFrom(acc, its, i) ==
    IF i > Len(its) THEN acc
    ELSE ItemLoopFrom(ItemStep(acc, its[i]), its, i + 1)

\* for item in self.items: ...
ItemLoop(its) == ItemLoopFrom(ItemLoopStart, its, 1)

\* total_tax_amount with a plausible fault: the integrated total is left out
total_tax_amount_no_igst(total_cgst, total_sgst, total_igst) ==
    float_add(total_cgst, total_sgst)

\* Step 2: total_tax_amount = total_cgst + total_sgst + total_igst
total_tax_amount(total_cgst, total_sgst, total_igst) ==
    float_add(float_add(total_cgst, total_sgst), total_igst)

\* decimal_part = base_grand_total - floor(base_grand_total); 0.5 rounds up.
\* The result is an int.
base_rounded_total(base_grand_total) ==
    LET decimal_part ==
            float_sub(base_grand_total, float(floor(base_grand_total)))
    IN  IF float_ge(decimal_part, Half)
        THEN floor(base_grand_total) + 1
        ELSE floor(base_grand_total)

\* a or b on strings: None and "" are falsy
str_or(a, b) == IF a = None \/ a = Some(<<>>) THEN b ELSE a[1]

\* (tax.get('gst_tax_type', "") or tax.get("account_head", "")).lower()
gst_tax_type(tax) == lower(str_or(tax.gst_tax_type, tax.account_head))

SetAmounts(tax, total, item_wise) ==
    [tax EXCEPT !.tax_amount = total,
                !.base_tax_amount = total,
                !.tax_amount_after_discount_amount = total,
                !.base_tax_amount_after_discount_amount = total,
                !.item_wise_tax_detail = json_dumps(item_wise)]

\* Step 3, the loop body for one tax row
UpdateTaxRow(tax, L) ==
    LET t == gst_tax_type(tax)
    IN  IF contains(<<"c","g","s","t">>, t)
        THEN SetAmounts(tax, L.total_cgst, L.cgst_item_wise)
        ELSE IF contains(<<"s","g","s","t">>, t)
                \/ contains(<<"u","t","g","s","t">>, t)
        THEN SetAmounts(tax, L.total_sgst, L.sgst_item_wise)
        ELSE IF contains(<<"i","g","s","t">>, t)
        THEN SetAmounts(tax, L.total_igst, L.igst_item_wise)
        ELSE tax

\* the total and base_total of row i become v
SetTotal(txs, i, v) == [txs EXCEPT ![i].total = v, ![i].base_total = v]

\* SetCumulativeTotals with a plausible fault: the running totals are chained
\* on the rows' previous totals instead of the document's base_total
SetCumulativeTotalsChained(txs, doc_base_total, L) ==
    IF Len(txs) = 1
    THEN SetTotal(txs, 1, float_add(txs[1].total, L.total_igst))
    ELSE IF Len(txs) = 2
    THEN SetTotal(SetTotal(txs, 1, float_add(txs[1].total, L.total_cgst)),
                  2, float_add(float_add(txs[1].total, L.total_cgst),
                               L.total_sgst))
    ELSE txs

\* SetCumulativeTotals with a plausible fault: the two-row rule is applied to
\* the first two rows of longer lists as well
SetCumulativeTotalsTwoOrMore(txs, doc_base_total, L) ==
    IF Len(txs) = 1
    THEN SetTotal(txs, 1, float_add(doc_base_total, L.total_igst))
    ELSE IF Len(txs) >= 2
    THEN SetTotal(SetTotal(txs, 1, float_add(doc_base_total, L.total_cgst)),
                  2, float_add(float_add(doc_base_total, L.total_cgst),
                               L.total_sgst))
    ELSE txs

\* Step 4: cumulative running totals, by the number of rows
SetCumulativeTotals(txs, doc_base_total, L) ==
    IF Len(txs) = 1
    THEN SetTotal(txs, 1, float_add(doc_base_total, L.total_igst))
    ELSE IF Len(txs) = 2
    THEN SetTotal(SetTotal(txs, 1, float_add(doc_base_total, L.total_cgst)),
                  2, float_add(float_add(doc_base_total, L.total_cgst),
                               L.total_sgst))
    ELSE txs

\* Steps 2 and 5: the document totals, from the sum of the taxes and the
\* int base_grand_total is rounded to
DocTotalsWith(d, tax_total, grand_total, base_grand_total, rounded) ==
    [d EXCEPT !.total_taxes_and_charges = tax_total,
              !.base_total_taxes_and_charges = tax_total,
              !.grand_total = grand_total,
              !.base_grand_total = base_grand_total,
              !.rounding_adjustment =
                  float_sub(float(rounded), base_grand_total),
              !.rounded_total = round_half_up(grand_total),
              !.base_rounded_total = rounded,
              !.outstanding_amount = rounded]

DocTotals(d, L) ==
    LET tax_total == total_tax_amount(L.total_cgst, L.total_sgst, L.total_igst)
        doc_net_total == flt_or0(d.net_total)
        doc_base_total == flt_or0(d.base_total)
        base_grand_total == float_add(doc_base_total, tax_total)
    IN  DocTotalsWith(d, tax_total, float_add(doc_net_total, tax_total),
                      base_grand_total, base_rounded_total(base_grand_total))

\* Steps 3 to 5, given what the loop over the items left
RecalculatedWith(L, txs, d) ==
    <<L.items,
      SetCumulativeTotals([i \in 1..Len(txs) |-> UpdateTaxRow(txs[i], L)],
                          flt_or0(d.base_total), L),
      DocTotals(d, L)>>

\* The whole method, as a function of the snapshot <<items, taxes, doc>>
Recalculated(its, txs, d) == RecalculatedWith(ItemLoop(its), txs, d)

\* ------------------------------------------------------- the host's pass
\* super().validate() is the host framework's standard validation, which is
\* not part of this repository.  It recomputes every tax row and the document
\* totals by its own rules and does not touch the items' custom amount
\* fields.  Its result is abstracted: every row carries the amount
\* HostTaxAmount (25.00) and the host's own breakup text, with a running
\* total, and the document totals are floats.
HostTaxAmount == float(25)

HostDetail == << <<"host", Zero, Zero>> >>

\* the host's running total after i rows
HostTotal(start, i) == float_add(start, float_mul(float(i), HostTaxAmount))

HostValidate(its, txs, d) ==
    LET n == Len(txs)
        base == flt_or0(d.base_total)
        net == flt_or0(d.net_total)
        rows == [i \in 1..n |->
                   [txs[i] EXCEPT
                      !.tax_amount = HostTaxAmount,
                      !.base_tax_amount = HostTaxAmount,
                      !.tax_amount_after_discount_amount = HostTaxAmount,
                      !.base_tax_amount_after_discount_amount = HostTaxAmount,
                      !.item_wise_tax_detail = HostDetail,
                      !.total = HostTotal(base, i),
                      !.base_total = HostTotal(base, i)]]
    IN  <<its, rows,
          [d EXCEPT !.total_taxes_and_charges = HostTotal(Zero, n),
                    !.base_total_taxes_and_charges = HostTotal(Zero, n),
                    !.grand_total = HostTotal(net, n),
                    !.base_grand_total = HostTotal(base, n),
                    !.rounding_adjustment = Zero,
                    !.rounded_total = HostTotal(net, n),
                    !.base_rounded_total = HostTotal(base, n),
                    !.outstanding_amount = HostTotal(base, n)]>>

\* ---------------------------------------------------------------- validate
\* ShouldApply with a plausible fault: the docstatus test is missing
ShouldApplyIgnoringDocstatus(d) == d.is_return = 0

\* if not self.get("is_return") and self.docstatus == 0
ShouldApply(d) == d.is_return = 0 /\ d.docstatus = 0

HOST == "SalesInvoice.validate"
ENGINE == "apply_tally_tax_calculation"

\* validate(): the host's pass first, then the recalculation when the gate
\* allows it.  The result holds the snapshot left behind, the calls made in
\* order and the snapshot as the host's pass left it.
ValidateAfter(std) ==
    IF ShouldApply(std[3])
    THEN [out |-> Recalculated(std[1], std[2], std[3]),
          calls |-> <<HOST, ENGINE>>, std |-> std]
    ELSE [out |-> std, calls |-> <<HOST>>, std |-> std]

ValidateResult(its, txs, d) == ValidateAfter(HostValidate(its, txs, d))

\* ------------------------------------------------------------ state machine
\* hist records the last operation: its name (op), the calls it made in
\* order (calls), the snapshot <<items, taxes, doc>> the recalculation was
\* given or, when it was skipped, the snapshot the host's pass left (std),
\* and whether the recalculation was run directly on its own output (again).
NewHist == [op |-> "new", calls |-> <<>>, std |-> <<>>, again |-> FALSE]

\* the snapshot at hand is the recalculation's output
Ran == hist.op = "apply" \/ (hist.op = "validate" /\ hist.calls = <<HOST, ENGINE>>)

\* A draft invoice that is no return, as the caller built it.
Init ==
    /\ items \in ItemLists
    /\ taxes \in TaxLists
    /\ \E t \in DocTotalsPool : doc = NewDoc(0, 0, t[1], t[2])
    /\ hist = NewHist

\* Any invoice: a return or not, a draft (0) or submitted (1).
GateInit ==
    /\ items \in SeqsUpTo({ItemA, ItemT}, MaxItems)
    /\ taxes \in TaxLists
    /\ \E is_return \in {0, 1}, docstatus \in {0, 1} :
          doc = NewDoc(is_return, docstatus,
                       Some(Dec2(100000)), Some(Dec2(102462)))
    /\ hist = NewHist

\* a call of validate()
validate ==
    \E r \in {ValidateResult(items, taxes, doc)} :
        /\ items' = r.out[1]
        /\ taxes' = r.out[2]
        /\ doc' = r.out[3]
        /\ hist' = [op |-> "validate", calls |-> r.calls, std |-> r.std,
                    again |-> FALSE]

\* a call of apply_tally_tax_calculation()
apply_tally_tax_calculation ==
    \E r \in {Recalculated(items, taxes, doc)} :
        /\ items' = r[1]
        /\ taxes' = r[2]
        /\ doc' = r[3]
        /\ hist' = [op |-> "apply", calls |-> <<ENGINE>>,
                    std |-> <<items, taxes, doc>>, again |-> Ran]

Next == validate \/ apply_tally_tax_calculation

Spec == Init /\ [][Next]_vars

GateNext == validate

GateSpec == GateInit /\ [][GateNext]_vars

\* ------------------------------------------------------------------------
\* Properties.  They are stated on the fields the operations leave behind,
\* with the definitions below, which do not use the operators of the engine.
\* An amount of money is read at currency precision: Hundredths(x) is the
\* number of hundredths the float x stands for.
\* ------------------------------------------------------------------------
OrZero(x) == IF x = None THEN Zero ELSE x[1]

\* the integer nearest to 100 * x, |x| < 2^24
Hundredths(x) ==
    IF IsZero(x) THEN 0
    ELSE LET n == NMulDigit(x.m, 100)
         IN  IF x.e >= 0 THEN x.sign * NToInt(NShl(n, x.e))
             ELSE x.sign * (NToInt(NShr(n, -x.e)) + NBit(n, -x.e - 1))

TaxTypes == {"cgst", "sgst", "igst"}

RateOf(item, X) ==
    IF X = "cgst" THEN item.cgst_rate
    ELSE IF X = "sgst" THEN item.sgst_rate ELSE item.igst_rate

AmountOf(item, X) ==
    IF X = "cgst" THEN item.cgst_amount
    ELSE IF X = "sgst" THEN item.sgst_amount ELSE item.igst_amount

\* the sum of the amounts of type X stored on the first n items, added one
\* after the other to 0.0
RECURSIVE StoredSum(_, _)
StoredSum(X, n) ==
    IF n = 0 THEN Zero
    ELSE float_add(StoredSum(X, n - 1), OrZero(AmountOf(items[n], X)))

StoredTotal(X) == StoredSum(X, Len(items))

StoredTaxTotal ==
    float_add(float_add(StoredTotal("cgst"), StoredTotal("sgst")),
              StoredTotal("igst"))

\* the same sums in hundredths
RECURSIVE CentsSum(_, _)
CentsSum(X, n) ==
    IF n = 0 THEN 0
    ELSE CentsSum(X, n - 1) + Hundredths(OrZero(AmountOf(items[n], X)))

CentsTaxTotal ==
    CentsSum("cgst", Len(items)) + CentsSum("sgst", Len(items))
        + CentsSum("igst", Len(items))

\* c hundredths is amount * rate / 100 scaled by 100, plus 0.5, truncated,
\* for an amount in hundredths and a rate in hundredths of a percent:
\* with q = (2 * amount * rate + 10000) / 20000, c is q cut toward zero
IsHalfUp2(c, amount, rate) ==
    LET n == 2 * amount * rate + 10000
    IN  IF n >= 0
        THEN c * 20000 <= n /\ n < (c + 1) * 20000
        ELSE (c - 1) * 20000 < n /\ n <= c * 20000

\* c hundredths is within half a hundredth of amount * rate / 100
IsNearest2(c, amount, rate) ==
    /\ c * 20000 - 2 * amount * rate <= 10000
    /\ 2 * amount * rate - c * 20000 <= 10000

\* Half-Up-Integer of g hundredths, g >= 0: truncate, plus 1 when the
\* fraction is at least 0.5
HalfUpInteger(g) == (g \div 100) + (IF g % 100 >= 50 THEN 1 ELSE 0)

\* the type the claims give each row of TaxRowPool
ExpectedKind(row) ==
    IF row.gst_tax_type = Some(CGST_TAG) THEN "cgst"
    ELSE IF row.gst_tax_type = Some(IGST_TAG) THEN "igst"
    ELSE IF row.account_head \in {SGST_HEAD, UTGST_HEAD} THEN "sgst"
    ELSE "none"

FourAmounts(row) ==
    <<row.tax_amount, row.base_tax_amount,
      row.tax_amount_after_discount_amount,
      row.base_tax_amount_after_discount_amount>>

\* the rows as the recalculation received them
RowsBefore == hist.std[2]

\* the items taxed under type X, those that come first under their item code,
\* and the last item taxed under the item code of item i
Taxed(X) ==
    {i \in 1..Len(items) : float_gt(OrZero(RateOf(items[i], X)), Zero)}

FirstOfCode(X) ==
    {i \in Taxed(X) :
        \A j \in Taxed(X) : j < i => items[j].item_code # items[i].item_code}

LastOfCode(X, i) ==
    CHOOSE j \in Taxed(X) :
        /\ items[j].item_code = items[i].item_code
        /\ \A k \in Taxed(X) :
              items[k].item_code = items[i].item_code => k <= j

\* detail is the breakup of type X: one member per item code taxed under X,
\* in the order the codes first appear, with the rate and the amount of the
\* last item of that code
IsBreakup(detail, X) ==
    /\ Len(detail) = Cardinality(FirstOfCode(X))
    /\ \A i \in FirstOfCode(X) :
          LET pos == Cardinality({j \in FirstOfCode(X) : j <= i})
              last == items[LastOfCode(X, i)]
          IN  detail[pos] = <<items[i].item_code, OrZero(RateOf(last, X)),
                              OrZero(AmountOf(last, X))>>

\* C1: after the recalculation every item holds, for each tax type, the
\* amount Half-Up-N(amount * rate / 100, 2), a missing amount or rate
\* counting as 0; the amount is stored also when the rate is 0.
C1_ItemAmounts ==
    Ran =>
      \A i \in 1..Len(items) : \A X \in TaxTypes :
          /\ AmountOf(items[i], X) # None
          /\ IsHalfUp2(Hundredths(AmountOf(items[i], X)[1]),
                       Hundredths(OrZero(items[i].amount)),
                       Hundredths(OrZero(RateOf(items[i], X))))

\* What does hold of the item amounts: each is stored, is a whole number of
\* hundredths and is within half a hundredth of amount * rate / 100 (a half
\* is rounded up or down).
ItemAmountsNearest ==
    Ran =>
      \A i \in 1..Len(items) : \A X \in TaxTypes :
          /\ AmountOf(items[i], X) # None
          /\ AmountOf(items[i], X)[1] =
                Dec2(Hundredths(AmountOf(items[i], X)[1]))
          /\ IsNearest2(Hundredths(AmountOf(items[i], X)[1]),
                        Hundredths(OrZero(items[i].amount)),
                        Hundredths(OrZero(RateOf(items[i], X))))

\* 11.50 at 9% is 1.035 and is stored as 1.03; at 3% it is 0.345 and is
\* stored as 0.35
ItemAmountsWitness ==
    /\ Ran
    /\ Len(items) = 2
    /\ items[1].item_code = "T"
    /\ items[1].cgst_amount = Some(Dec2(103))
    /\ items[1].sgst_amount = Some(Dec2(35))
    /\ items[2].amount = None /\ items[2].cgst_amount = Some(Zero)

\* C2: total_taxes_and_charges and its base mirror are the sum of the rounded
\* amounts stored on the items, grand_total is net_total plus that sum and
\* base_grand_total is base_total plus that sum, for any list of items: as
\* floats, added type by type in the order of the items, and as amounts in
\* hundredths.
C2_DocumentTotals ==
    Ran =>
      /\ doc.total_taxes_and_charges = StoredTaxTotal
      /\ doc.base_total_taxes_and_charges = StoredTaxTotal
      /\ doc.grand_total = float_add(OrZero(doc.net_total), StoredTaxTotal)
      /\ doc.base_grand_total =
            float_add(OrZero(doc.base_total), StoredTaxTotal)
      /\ Hundredths(doc.total_taxes_and_charges) = CentsTaxTotal
      /\ Hundredths(doc.base_total_taxes_and_charges) = CentsTaxTotal
      /\ Hundredths(doc.grand_total) =
            Hundredths(OrZero(doc.net_total)) + CentsTaxTotal
      /\ Hundredths(doc.base_grand_total) =
            Hundredths(OrZero(doc.base_total)) + CentsTaxTotal

\* two lines of 9.0045 + 9.0045: 36.00 as a sum of rounded amounts, where the
\* rounded sums would give 36.02
C2_Witness ==
    /\ Ran
    /\ Len(items) = 2
    /\ items[1].amount = Some(Dec2(10005))
    /\ items[2].amount = Some(Dec2(10005))
    /\ doc.total_taxes_and_charges = float(36)
    /\ doc.grand_total = float(1036)
    /\ Hundredths(doc.base_grand_total) = 102462 + 3600

\* the sum, in hundredths, of tax_amount over the first n tax rows
RECURSIVE RowTaxSum(_)
RowTaxSum(n) ==
    IF n = 0 THEN 0 ELSE RowTaxSum(n - 1) + Hundredths(taxes[n].tax_amount)

\* C3: after the recalculation the tax_amount of the tax rows add up to the
\* document's total_taxes_and_charges, whatever rows the caller supplied.
C3_RowSumIsTotal ==
    Ran => RowTaxSum(Len(taxes)) = Hundredths(doc.total_taxes_and_charges)

\* C4: with exactly two tax rows, in any order and under any labels, the
\* second row's total is the first row's total plus the second row's own
\* tax_amount.
C4_CumulativeChain ==
    (Ran /\ Len(taxes) = 2) =>
        Hundredths(taxes[2].total) =
            Hundredths(taxes[1].total) + Hundredths(taxes[2].tax_amount)

\* C5: when base_grand_total is not negative, base_rounded_total is a whole
\* number of units and is Half-Up-Integer of base_grand_total;
\* rounding_adjustment is base_rounded_total - base_grand_total and smaller
\* than one unit in magnitude; outstanding_amount is base_rounded_total.
C5_RoundedTotal ==
    (Ran /\ float_ge(doc.base_grand_total, Zero)) =>
      /\ doc.base_rounded_total \in Int
      /\ doc.base_rounded_total =
            HalfUpInteger(Hundredths(doc.base_grand_total))
      /\ doc.rounding_adjustment =
            float_sub(float(doc.base_rounded_total), doc.base_grand_total)
      /\ float_lt(doc.rounding_adjustment, float(1))
      /\ float_gt(doc.rounding_adjustment, float(-1))
      /\ doc.outstanding_amount = doc.base_rounded_total

\* What does hold of the rounded total: the same with the float
\* base_grand_total taken bit for bit instead of as an amount in hundredths
\* (974.4999999999999, the float sum of 1024.62 and -50.12, is below the half).
RoundedTotalOfFloat ==
    (Ran /\ float_ge(doc.base_grand_total, Zero)) =>
      LET whole == int(doc.base_grand_total)
          fraction == float_sub(doc.base_grand_total, float(whole))
      IN  /\ doc.base_rounded_total \in Int
          /\ doc.base_rounded_total =
                whole + (IF float_ge(fraction, Half) THEN 1 ELSE 0)
          /\ doc.rounding_adjustment =
                float_sub(float(doc.base_rounded_total), doc.base_grand_total)
          /\ float_lt(doc.rounding_adjustment, float(1))
          /\ float_gt(doc.rounding_adjustment, float(-1))
          /\ doc.outstanding_amount = doc.base_rounded_total

\* 1024.62 - 50.12 = 974.50 is kept as a float below 974.5 and rounded to 974
RoundedTotalWitness ==
    /\ Ran
    /\ Len(items) = 1 /\ items[1].item_code = "N"
    /\ Hundredths(doc.base_grand_total) = 97450
    /\ doc.base_grand_total # Dec2(97450)
    /\ doc.base_rounded_total = 974

\* C6: a run of the recalculation on the snapshot a run of it left behind
\* changes no item field, no tax-row field and no document total.
C6_Idempotent ==
    [][(Ran /\ hist'.op = "apply")
          => (items' = items /\ taxes' = taxes /\ doc' = doc)]_vars

C6_Witness ==
    /\ hist.again
    /\ Len(items) = 2 /\ Len(taxes) = 2
    /\ doc.total_taxes_and_charges # Zero
    /\ taxes[1].tax_amount # Zero

\* C7: validate() runs the host's pass first and then the recalculation at
\* most once, exactly when the document is no return and is a draft;
\* otherwise it leaves every field as the host's pass produced it.
C7_Gate ==
    hist.op = "validate" =>
      /\ hist.calls \in {<<HOST>>, <<HOST, ENGINE>>}
      /\ (hist.calls = <<HOST, ENGINE>>)
            <=> (doc.is_return = 0 /\ doc.docstatus = 0)
      /\ hist.calls = <<HOST>> =>
            /\ <<items, taxes, doc>> = hist.std
            /\ \A i \in 1..Len(items) : \A X \in TaxTypes :
                  AmountOf(items[i], X) = None
            /\ \A i \in 1..Len(taxes) :
                  FourAmounts(taxes[i]) = <<HostTaxAmount, HostTaxAmount,
                                            HostTaxAmount, HostTaxAmount>>
      /\ hist.calls = <<HOST, ENGINE>> =>
            \A i \in 1..Len(items) : \A X \in TaxTypes :
                  AmountOf(items[i], X) # None

C7_Witness ==
    /\ hist.op = "validate"
    /\ doc.is_return = 0 /\ doc.docstatus = 1
    /\ hist.calls = <<HOST>>
    /\ Len(items) = 2 /\ Len(taxes) = 2
    /\ items[1].cgst_amount = None
    /\ ExpectedKind(taxes[1]) = "cgst"

\* C8: the running totals follow the number of rows alone: one row gets
\* base_total + total_igst, two rows get base_total + total_cgst and
\* base_total + total_cgst + total_sgst, and with no row or three or more
\* rows no total or base_total is changed.
C8_RunningTotals ==
    Ran =>
      LET base == OrZero(doc.base_total)
      IN  /\ Len(taxes) = 1 =>
                /\ taxes[1].total = float_add(base, StoredTotal("igst"))
                /\ taxes[1].base_total = taxes[1].total
          /\ Len(taxes) = 2 =>
                /\ taxes[1].total = float_add(base, StoredTotal("cgst"))
                /\ taxes[1].base_total = taxes[1].total
                /\ taxes[2].total =
                      float_add(float_add(base, StoredTotal("cgst")),
                                StoredTotal("sgst"))
                /\ taxes[2].base_total = taxes[2].total
          /\ Len(taxes) \notin {1, 2} =>
                \A i \in 1..Len(taxes) :
                    /\ taxes[i].total = RowsBefore[i].total
                    /\ taxes[i].base_total = RowsBefore[i].base_total

\* three rows after the host's pass: its running totals are still there
C8_Witness ==
    /\ Ran /\ hist.op = "validate"
    /\ Len(taxes) = 3
    /\ doc.base_total = Some(Dec2(102462))
    /\ taxes[3].total = HostTotal(Dec2(102462), 3)
    /\ StoredTotal("cgst") # Zero

\* C9: the breakup written to a row of a type holds a member
\* identifier -> [rate, rounded amount] for every item whose rate of that
\* type is positive, and none for an item whose rate of that type is zero or
\* absent.
C9_BreakupPerItem ==
    Ran =>
      \A r \in 1..Len(taxes) :
        LET X == ExpectedKind(taxes[r])
            detail == taxes[r].item_wise_tax_detail
        IN  X # "none" =>
              \A i \in 1..Len(items) :
                IF float_gt(OrZero(RateOf(items[i], X)), Zero)
                THEN \E k \in 1..Len(detail) :
                        detail[k] = <<items[i].item_code,
                                      OrZero(RateOf(items[i], X)),
                                      OrZero(AmountOf(items[i], X))>>
                ELSE \A k \in 1..Len(detail) :
                        detail[k][1] # items[i].item_code

\* C10: rows are classified by the first of "cgst", "sgst" or
\* "utgst", "igst" found in the lower-cased type tag or, without a tag,
\* account head; a classified row gets its type's total in the four amount
\* fields and its type's breakup; a row of no type is left untouched by the
\* recalculation.
C10_UnclassifiedUntouched ==
    Ran =>
      \A r \in 1..Len(taxes) :
        LET X == ExpectedKind(taxes[r])
        IN  IF X = "none"
            THEN taxes[r] = RowsBefore[r]
            ELSE /\ FourAmounts(taxes[r]) =
                      <<StoredTotal(X), StoredTotal(X),
                        StoredTotal(X), StoredTotal(X)>>
                 /\ IsBreakup(taxes[r].item_wise_tax_detail, X)

\* What does hold of the classification: as above, except that a row of no
\* type keeps its four amount fields and its item_wise_tax_detail only (its
\* total and base_total are overwritten when there are one or two rows).
ClassificationHolds ==
    Ran =>
      \A r \in 1..Len(taxes) :
        LET X == ExpectedKind(taxes[r])
        IN  /\ taxes[r].gst_tax_type = RowsBefore[r].gst_tax_type
            /\ taxes[r].account_head = RowsBefore[r].account_head
            /\ IF X = "none"
               THEN /\ FourAmounts(taxes[r]) = FourAmounts(RowsBefore[r])
                    /\ taxes[r].item_wise_tax_detail =
                          RowsBefore[r].item_wise_tax_detail
               ELSE /\ FourAmounts(taxes[r]) =
                         <<StoredTotal(X), StoredTotal(X),
                           StoredTotal(X), StoredTotal(X)>>
                    /\ IsBreakup(taxes[r].item_wise_tax_detail, X)

\* a freight row and a union-territory row after the host's pass: the freight
\* row keeps the host's amount and loses the host's running total
ClassificationWitness ==
    /\ Ran /\ hist.op = "validate"
    /\ Len(taxes) = 2
    /\ taxes[1].account_head = FREIGHT_HEAD
    /\ taxes[1].tax_amount = HostTaxAmount
    /\ taxes[1].item_wise_tax_detail = HostDetail
    /\ taxes[1].total # RowsBefore[1].total
    /\ taxes[2].account_head = UTGST_HEAD
    /\ taxes[2].tax_amount = StoredTotal("sgst")
    /\ StoredTotal("sgst") # Zero /\ StoredTotal("igst") # StoredTotal("sgst")

=============================================================================
